---- MODULE Spec2Model ----
(***************************************************************************)
(* Model of solar_consumer/save_forecast.py: the site directory, the four  *)
(* persist/export operations and get_or_create_pvsite.  Every operation is *)
(* one action; the external collaborators (site lookup, site create, the   *)
(* generation and forecast stores, the session commit, the filesystem) are *)
(* recorded call by call in `calls`, and each of them may fail.            *)
(***************************************************************************)
EXTENDS Integers, Sequences, FiniteSets, TLC

VARIABLES
    sites,      \* the site directory: the set of stored site records
    fs,         \* the filesystem: [dirs : set of paths, files : path -> table]
    op,         \* the operation that has just run ("idle" between calls)
    args,       \* its arguments
    calls,      \* the external calls it made, in order
    raised,     \* what it raised ("" when it returned normally)
    returned    \* the site it returned, as <<site>> (<<>> is None)

vars == <<sites, fs, op, args, calls, raised, returned>>

----------------------------------------------------------------------------
(* Bounds of the model *)

MaxRows == 2        \* rows of an input table / length of a forecast list
MaxSites == 2       \* site records the directory may hold
MaxNow == 16        \* latest clock reading, in minutes
KwParts == 2        \* capacity_kw values are multiples of 1/KwParts kW

----------------------------------------------------------------------------
(* Module constants, lines 13-27 *)

PVSite(name, lat, lon) ==
    [client_site_name |-> name, latitude |-> lat, longitude |-> lon]

nl_national == PVSite("nl_national", "52.15", "5.23")
de_50hertz == PVSite("50Hertz", "52.53", "13.37")
de_amprion == PVSite("Amprion", "51.52", "7.45")
de_tennet == PVSite("TenneT", "52.38", "5.17")
de_transnetbw == PVSite("TransnetBW", "48.78", "9.18")

\* A dict iterates in insertion order: a sequence of <<key, value>> items.
DE_TSO_SITES ==
    << <<"TransnetBW", de_transnetbw>>, <<"50Hertz", de_50hertz>>,
       <<"TenneT", de_tennet>>, <<"Amprion", de_amprion>> >>

DE_TSO_CAPACITY ==
    ("TransnetBW" :> 10770000) @@ ("50Hertz" :> 18175000) @@
    ("TenneT" :> 21882000) @@ ("Amprion" :> 16506000)

NL_SITES == << <<"nl_national", nl_national>> >>

DefaultCapacity == 20000000

----------------------------------------------------------------------------
(* Values *)

\* Optional[int]: <<>> is None, <<v>> is the value v.
NoneVal == <<>>
Some(v) == <<v>>

\* capacity_kw is a float column; the model counts its values in units of
\* 1/KwParts kW (with KwParts = 2 the value 3 is 1.5 kW).  int() truncates
\* a non-negative float.
PyInt(v) == v \div KwParts

SeqMax(s) == CHOOSE m \in {s[i] : i \in 1..Len(s)} : \A i \in 1..Len(s) : s[i] <= m

\* Time is counted in minutes; "15min" and pd.Timedelta(hours=0.25).
Quarter == 15

\* Mutant of Floor15: rounds to the nearest quarter instead of flooring.
Floor15Nearest(t) == ((t + 7) \div 15) * 15

\* pd.Timestamp.floor("15min")
Floor15(t) == t - (t % Quarter)

----------------------------------------------------------------------------
(* External collaborators.  Each call is logged; `ok` tells whether it
   returned or raised. *)

LookupCall(name, outcome) ==
    [fn |-> "get_site_by_client_site_name", client_site_name |-> name,
     client_name |-> name, outcome |-> outcome]

CreateCall(site, ok) ==
    [fn |-> "create_site", site |-> site, client_site_id |-> 1,
     dno |-> "", gsp |-> "", ok |-> ok]

InsertGenerationCall(df, ok) ==
    [fn |-> "insert_generation_values", df |-> df, ok |-> ok]

CommitCall(ok) == [fn |-> "commit", ok |-> ok]

InsertForecastCall(df, meta, name, version, ok) ==
    [fn |-> "insert_forecast_values", forecast_values_df |-> df,
     forecast_meta |-> meta, ml_model_name |-> name,
     ml_model_version |-> version, ok |-> ok]

SaveCall(forecasts, ok) == [fn |-> "save", forecasts |-> forecasts, ok |-> ok]

MakedirsCall(dir, ok) == [fn |-> "makedirs", dir |-> dir, ok |-> ok]

ToCsvCall(path, table, ok) ==
    [fn |-> "to_csv", path |-> path, table |-> table, ok |-> ok]

\* The one failing external call of a run: its kind and the ordinal of the
\* non-empty bucket in which it fails ("none": every call succeeds).
NoFault == [kind |-> "none", at |-> 0]
Fails(fault, kind, ord) == fault.kind = kind /\ fault.at = ord

\* The sites a lookup by client site name matches.
Matches(store, name) == {s \in store : s.client_site_name = name}

\* The directory's answer when several sites match is the directory's
\* choice: the match with identifier `pick`, else the oldest match.
PickSite(found, pick) ==
    IF \E s \in found : s.location_uuid = pick
    THEN CHOOSE s \in found : s.location_uuid = pick
    ELSE CHOOSE s \in found : \A t \in found : s.location_uuid <= t.location_uuid

----------------------------------------------------------------------------
\* lines 51-61: the site create_site stores, under a fresh identifier.
NewSite(store, pvsite, country, capacity) ==
    [location_uuid |-> Cardinality(store) + 1,
     client_site_name |-> pvsite.client_site_name,
     latitude |-> pvsite.latitude,
     longitude |-> pvsite.longitude,
     country |-> country,
     capacity_kw |-> capacity]

\* Mutant of get_or_create_pvsite: only "not found" is caught; any other lookup error propagates.
GetOrCreateNarrowExcept(store, pvsite, country, capacity_override_kw, lookupFails, createFails, pick) ==
    LET name == pvsite.client_site_name
        found == Matches(store, name)
        capacity == IF capacity_override_kw # NoneVal
                    THEN capacity_override_kw[1]
                    ELSE IF country = "de" THEN DE_TSO_CAPACITY[name]
                    ELSE DefaultCapacity
        site == NewSite(store, pvsite, country, capacity)
    IN  IF lookupFails
        THEN [store |-> store, site |-> <<>>,
              calls |-> <<LookupCall(name, "error")>>,
              err |-> "get_site_by_client_site_name"]
        ELSE IF found # {}
        THEN [store |-> store, site |-> <<PickSite(found, pick)>>,
              calls |-> <<LookupCall(name, "site")>>, err |-> ""]
        ELSE IF /\ capacity_override_kw = NoneVal
                /\ country = "de"
                /\ name \notin DOMAIN DE_TSO_CAPACITY
        THEN [store |-> store, site |-> <<>>,
              calls |-> <<LookupCall(name, "not_found")>>, err |-> "KeyError"]
        ELSE IF createFails
        THEN [store |-> store, site |-> <<>>,
              calls |-> <<LookupCall(name, "not_found"), CreateCall(site, FALSE)>>,
              err |-> "create_site"]
        ELSE [store |-> store \cup {site}, site |-> <<site>>,
              calls |-> <<LookupCall(name, "not_found"), CreateCall(site, TRUE)>>,
              err |-> ""]

\* Mutant of get_or_create_pvsite: a site that is found takes the capacity override of the call.
GetOrCreateUpdatesFound(store, pvsite, country, capacity_override_kw, lookupFails, createFails, pick) ==
    LET name == pvsite.client_site_name
        found == Matches(store, name)
        lookupRaises == lookupFails \/ found = {}
        lookup == LookupCall(name, IF ~lookupRaises THEN "site"
                                   ELSE IF lookupFails THEN "error"
                                   ELSE "not_found")
        capacity == IF capacity_override_kw # NoneVal
                    THEN capacity_override_kw[1]
                    ELSE IF country = "de" THEN DE_TSO_CAPACITY[name]
                    ELSE DefaultCapacity
        site == NewSite(store, pvsite, country, capacity)
    IN  IF ~lookupRaises
        THEN LET old == PickSite(found, pick)
                 new == IF capacity_override_kw = NoneVal THEN old
                        ELSE [old EXCEPT !.capacity_kw = capacity_override_kw[1]]
             IN  [store |-> (store \ {old}) \cup {new}, site |-> <<new>>,
                  calls |-> <<lookup>>, err |-> ""]
        ELSE IF /\ capacity_override_kw = NoneVal
                /\ country = "de"
                /\ name \notin DOMAIN DE_TSO_CAPACITY
        THEN [store |-> store, site |-> <<>>, calls |-> <<lookup>>,
              err |-> "KeyError"]
        ELSE IF createFails
        THEN [store |-> store, site |-> <<>>,
              calls |-> <<lookup, CreateCall(site, FALSE)>>,
              err |-> "create_site"]
        ELSE [store |-> store \cup {site}, site |-> <<site>>,
              calls |-> <<lookup, CreateCall(site, TRUE)>>,
              err |-> ""]

----------------------------------------------------------------------------
(* get_or_create_pvsite, lines 31-62.  Result: the store afterwards, the
   site returned (<<>> when the call raised), the calls made, the error. *)

get_or_create_pvsite(store, pvsite, country, capacity_override_kw, lookupFails, createFails, pick) ==
    LET name == pvsite.client_site_name
        found == Matches(store, name)
        lookupRaises == lookupFails \/ found = {}
        lookup == LookupCall(name, IF ~lookupRaises THEN "site"
                                   ELSE IF lookupFails THEN "error"
                                   ELSE "not_found")
    IN  IF ~lookupRaises
        THEN [store |-> store, site |-> <<PickSite(found, pick)>>,
              calls |-> <<lookup>>, err |-> ""]
        ELSE IF /\ capacity_override_kw = NoneVal
                /\ country = "de"
                /\ name \notin DOMAIN DE_TSO_CAPACITY
        THEN [store |-> store, site |-> <<>>, calls |-> <<lookup>>,
              err |-> "KeyError"]
        ELSE
        LET capacity == IF capacity_override_kw # NoneVal
                        THEN capacity_override_kw[1]
                        ELSE IF country = "de" THEN DE_TSO_CAPACITY[name]
                        ELSE DefaultCapacity
            site == NewSite(store, pvsite, country, capacity)
        IN  IF createFails
            THEN [store |-> store, site |-> <<>>,
                  calls |-> <<lookup, CreateCall(site, FALSE)>>,
                  err |-> "create_site"]
            ELSE [store |-> store \cup {site}, site |-> <<site>>,
                  calls |-> <<lookup, CreateCall(site, TRUE)>>,
                  err |-> ""]

----------------------------------------------------------------------------
(* save_generation_to_site_db, lines 64-132.  A table is
   [columns : set of names, rows : sequence of rows]; a row is a function
   from the table's columns (and "index", the DataFrame index label). *)

\* Mutant of GenerationRow: stamps client_site_id (always 1), not the
\* site's location_uuid.
GenerationRowClientSiteId(row, site) ==
    [c \in ((DOMAIN row \ {"solar_generation_kw", "target_datetime_utc"})
            \cup {"power_kw", "start_utc", "site_uuid"}) |->
        IF c = "power_kw" THEN row["solar_generation_kw"]
        ELSE IF c = "start_utc" THEN row["target_datetime_utc"]
        ELSE IF c = "site_uuid" THEN 1
        ELSE row[c]]

\* lines 121-128: rename two columns, stamp the site identifier.
\* pd.to_datetime leaves a column of instants as it is.
GenerationRow(row, site) ==
    [c \in ((DOMAIN row \ {"solar_generation_kw", "target_datetime_utc"})
            \cup {"power_kw", "start_utc", "site_uuid"}) |->
        IF c = "power_kw" THEN row["solar_generation_kw"]
        ELSE IF c = "start_utc" THEN row["target_datetime_utc"]
        ELSE IF c = "site_uuid" THEN site.location_uuid
        ELSE row[c]]

\* line 108: generation_data[generation_data["tso_zone"] == tso]
FilterTso(rows, tso) ==
    LET keep(r) == r["tso_zone"] = tso IN SelectSeq(rows, keep)

\* Mutant of CapacityOverride: the first row's capacity, not the maximum.
CapacityOverrideFirstRow(generation_data) ==
    IF "capacity_kw" \in generation_data.columns
    THEN Some(PyInt(generation_data.rows[1]["capacity_kw"]))
    ELSE NoneVal

\* lines 97-101
CapacityOverride(generation_data) ==
    IF "capacity_kw" \in generation_data.columns
    THEN Some(PyInt(SeqMax([i \in 1..Len(generation_data.rows) |->
                            generation_data.rows[i]["capacity_kw"]])))
    ELSE NoneVal

\* lines 104-132: the loop over country_sites, from item i on; `ord` counts
\* the non-empty buckets met so far, `acc` is [store, calls].
RECURSIVE GenerationLoop(_, _, _, _, _, _, _, _, _)
GenerationLoop(i, ord, country_sites, generation_data, country, capacity_override, fault, pick, acc) ==
    IF i > Len(country_sites)
    THEN [store |-> acc.store, calls |-> acc.calls, raised |-> ""]
    ELSE IF country = "de" /\ "tso_zone" \notin generation_data.columns
    THEN [store |-> acc.store, calls |-> acc.calls, raised |-> "KeyError"]
    ELSE
    LET tso == country_sites[i][1]
        pvsite == country_sites[i][2]
        df == IF country = "de" THEN FilterTso(generation_data.rows, tso)
              ELSE generation_data.rows
    IN  IF df = <<>>
        THEN GenerationLoop(i + 1, ord, country_sites, generation_data, country,
                            capacity_override, fault, pick, acc)
        ELSE
        LET n == ord + 1
            got == get_or_create_pvsite(acc.store, pvsite, country,
                       capacity_override, Fails(fault, "lookup", n),
                       Fails(fault, "create", n), pick)
            c1 == acc.calls \o got.calls
        IN  IF got.err # ""
            THEN [store |-> got.store, calls |-> c1, raised |-> got.err]
            ELSE
            LET batch == [k \in 1..Len(df) |-> GenerationRow(df[k], got.site[1])]
                insertOk == ~Fails(fault, "insert", n)
                c2 == Append(c1, InsertGenerationCall(batch, insertOk))
                commitOk == ~Fails(fault, "commit", n)
                c3 == Append(c2, CommitCall(commitOk))
            IN  IF ~insertOk
                THEN [store |-> got.store, calls |-> c2,
                      raised |-> "insert_generation_values"]
                ELSE IF ~commitOk
                THEN [store |-> got.store, calls |-> c3, raised |-> "commit"]
                ELSE GenerationLoop(i + 1, n, country_sites, generation_data,
                         country, capacity_override, fault, pick,
                         [store |-> got.store, calls |-> c3])

\* Mutant of save_generation_to_site_db: any country but "de" is taken
\* for "nl".
SaveGenerationAnyCountry(store, generation_data, country, fault, pick) ==
    IF generation_data.rows = <<>>
    THEN [store |-> store, calls |-> <<>>, raised |-> ""]
    ELSE GenerationLoop(1, 0, IF country = "de" THEN DE_TSO_SITES ELSE NL_SITES,
                        generation_data, country,
                        CapacityOverride(generation_data), fault, pick,
                        [store |-> store, calls |-> <<>>])

save_generation_to_site_db(store, generation_data, country, fault, pick) ==
    IF generation_data.rows = <<>>
    THEN [store |-> store, calls |-> <<>>, raised |-> ""]
    ELSE IF country \notin {"nl", "de"}
    THEN [store |-> store, calls |-> <<>>, raised |-> "Exception"]
    ELSE GenerationLoop(1, 0, IF country = "nl" THEN NL_SITES ELSE DE_TSO_SITES,
                        generation_data, country,
                        CapacityOverride(generation_data), fault, pick,
                        [store |-> store, calls |-> <<>>])

----------------------------------------------------------------------------
(* save_forecasts_to_site_db, lines 134-191 *)

\* lines 168-183: rename, keep two columns, add end_utc and horizon_minutes
\* (pd.Timedelta(hours=0.25) is a quarter of an hour).
ForecastRow(row, timestamp_utc) ==
    [forecast_power_kw |-> row["solar_generation_kw"],
     start_utc |-> row["target_datetime_utc"],
     end_utc |-> row["target_datetime_utc"] + Quarter,
     horizon_minutes |-> row["target_datetime_utc"] - timestamp_utc]

save_forecasts_to_site_db(store, forecast_data, model_tag, model_version, country, now, fault, pick) ==
    IF country # "nl"
    THEN [store |-> store, calls |-> <<>>, raised |-> "Exception"]
    ELSE
    LET got == get_or_create_pvsite(store, nl_national, country, NoneVal,
                   Fails(fault, "lookup", 1), Fails(fault, "create", 1), pick)
    IN  IF got.err # ""
        THEN [store |-> got.store, calls |-> got.calls, raised |-> got.err]
        ELSE
        LET timestamp_utc == Floor15(now)
            forecast_meta == [location_uuid |-> got.site[1].location_uuid,
                              timestamp_utc |-> timestamp_utc,
                              forecast_version |-> model_version]
            df == [k \in 1..Len(forecast_data.rows) |->
                     ForecastRow(forecast_data.rows[k], timestamp_utc)]
            insertOk == ~Fails(fault, "insert", 1)
        IN  [store |-> got.store,
             calls |-> Append(got.calls,
                         InsertForecastCall(df, forecast_meta, model_tag,
                                            model_version, insertOk)),
             raised |-> IF insertOk THEN "" ELSE "insert_forecast_values"]

----------------------------------------------------------------------------
(* save_forecasts_to_db, lines 194-218 *)

save_forecasts_to_db(forecasts, fault) ==
    IF forecasts = <<>>
    THEN [calls |-> <<>>, raised |-> ""]
    ELSE LET ok == ~Fails(fault, "save", 1)
         IN  [calls |-> <<SaveCall(forecasts, ok)>>,
              raised |-> IF ok THEN "" ELSE "save"]

----------------------------------------------------------------------------
(* save_forecasts_to_csv, lines 221-252 *)

NoneDir == "<None>"
CsvPath(csv_dir) == <<csv_dir, "forecast_data.csv">>    \* os.path.join

\* line 243: drop(columns=["_sa_instance_state"], errors="ignore")
DropColumn(table, col) ==
    [columns |-> table.columns \ {col},
     rows |-> [k \in 1..Len(table.rows) |->
                 [c \in DOMAIN table.rows[k] \ {col} |-> table.rows[k][c]]]]

\* line 248: to_csv(csv_path, index=False) writes the columns, not the index.
CsvContent(table) == DropColumn(table, "index")

\* Mutant of save_forecasts_to_csv: only None counts as "no directory".
SaveCsvChecksNoneOnly(fsys, forecasts, csv_dir, fault) ==
    IF forecasts.rows = <<>>
    THEN [fs |-> fsys, calls |-> <<>>, raised |-> ""]
    ELSE IF csv_dir = NoneDir
    THEN [fs |-> fsys, calls |-> <<>>, raised |-> "ValueError"]
    ELSE IF fault.kind = "makedirs"
    THEN [fs |-> fsys, calls |-> <<MakedirsCall(csv_dir, FALSE)>>,
          raised |-> "makedirs"]
    ELSE
    LET made == [fsys EXCEPT !.dirs = @ \cup {csv_dir}]
        csv_path == CsvPath(csv_dir)
        out == DropColumn(forecasts, "_sa_instance_state")
        ok == fault.kind # "to_csv"
        content == IF ok THEN CsvContent(out) ELSE [columns |-> {}, rows |-> <<>>]
        written == IF ok \/ fault.at = 2
                   THEN [made EXCEPT !.files =
                           [q \in DOMAIN @ \cup {csv_path} |->
                               IF q = csv_path THEN content ELSE @[q]]]
                   ELSE made
    IN  [fs |-> written,
         calls |-> <<MakedirsCall(csv_dir, TRUE), ToCsvCall(csv_path, out, ok)>>,
         raised |-> IF ok THEN "" ELSE "to_csv"]

\* A to_csv that fails leaves the file as it was (at = 1) or opened and
\* empty (at = 2).
save_forecasts_to_csv(fsys, forecasts, csv_dir, fault) ==
    IF forecasts.rows = <<>>
    THEN [fs |-> fsys, calls |-> <<>>, raised |-> ""]
    ELSE IF csv_dir \in {NoneDir, ""}
    THEN [fs |-> fsys, calls |-> <<>>, raised |-> "ValueError"]
    ELSE IF fault.kind = "makedirs"
    THEN [fs |-> fsys, calls |-> <<MakedirsCall(csv_dir, FALSE)>>,
          raised |-> "makedirs"]
    ELSE
    LET made == [fsys EXCEPT !.dirs = @ \cup {csv_dir}]
        csv_path == CsvPath(csv_dir)
        out == DropColumn(forecasts, "_sa_instance_state")
        ok == fault.kind # "to_csv"
        content == IF ok THEN CsvContent(out) ELSE [columns |-> {}, rows |-> <<>>]
        written == IF ok \/ fault.at = 2
                   THEN [made EXCEPT !.files =
                           [q \in DOMAIN @ \cup {csv_path} |->
                               IF q = csv_path THEN content ELSE @[q]]]
                   ELSE made
    IN  [fs |-> written,
         calls |-> <<MakedirsCall(csv_dir, TRUE), ToCsvCall(csv_path, out, ok)>>,
         raised |-> IF ok THEN "" ELSE "to_csv"]

----------------------------------------------------------------------------
(* Inputs *)

Countries == {"nl", "de", "fr"}
TsoNames == {DE_TSO_SITES[i][1] : i \in 1..Len(DE_TSO_SITES)}
Zones == TsoNames \cup {"other"}
CapVals == {3, 4}               \* 1.5 kW and 2.0 kW
StartTimes == {0, 20}           \* minutes
CsvDirs == {NoneDir, "", "out"}
Registry == {nl_national, de_50hertz, de_amprion, de_tennet, de_transnetbw}

\* Row i of a table with the optional columns `opt`.
Row(i, opt, zone, cap, start) ==
    [c \in {"index", "solar_generation_kw", "target_datetime_utc"} \cup opt |->
        IF c = "index" THEN i
        ELSE IF c = "solar_generation_kw" THEN 100 * i
        ELSE IF c = "target_datetime_utc" THEN start
        ELSE IF c = "tso_zone" THEN zone
        ELSE IF c = "capacity_kw" THEN cap
        ELSE "state"]

Table(opt, rows) ==
    [columns |-> {"solar_generation_kw", "target_datetime_utc"} \cup opt,
     rows |-> rows]

GenTablesOf(opt) ==
    UNION {{Table(opt, [i \in 1..n |-> Row(i, opt, z[i], c[i], Quarter * i)]) :
               z \in [1..n -> Zones], c \in [1..n -> CapVals]} : n \in 0..MaxRows}

GenTables == UNION {GenTablesOf(opt) : opt \in SUBSET {"tso_zone", "capacity_kw"}}

ForecastTables ==
    UNION {{Table({"capacity_kw"},
                  [i \in 1..n |-> Row(i, {"capacity_kw"}, "", 4, t[i])]) :
               t \in [1..n -> StartTimes]} : n \in 0..MaxRows}

CsvTables ==
    UNION {{Table(opt, [i \in 1..n |-> Row(i, opt, "", 4, Quarter * i)]) :
               opt \in SUBSET {"_sa_instance_state"}} : n \in 0..MaxRows}

ForecastLists == UNION {[1..n -> {"forecast"}] : n \in 0..MaxRows}

Faults(kinds, ords) == {NoFault} \cup [kind : kinds, at : ords]

\* Whether the call failed; a lookup that answers "not found" has not.
Failed(c) == IF c.fn = "get_site_by_client_site_name" THEN c.outcome = "error"
             ELSE ~c.ok

\* A fault is an input only of the runs in which its call is made.
Fired(fault, log) == fault = NoFault \/ \E k \in 1..Len(log) : Failed(log[k])

\* `pick` is an input only where the directory has a choice.
Picks(store) ==
    {0} \cup {s.location_uuid : s \in
                {s \in store : \E t \in Matches(store, s.client_site_name) :
                                   t.location_uuid < s.location_uuid}}

----------------------------------------------------------------------------
(* The state machine *)

Init ==
    /\ sites = {}
    /\ fs = [dirs |-> {}, files |-> <<>>]
    /\ op = "idle"
    /\ args = <<>>
    /\ calls = <<>>
    /\ raised = ""
    /\ returned = <<>>

GetOrCreatePvsite ==
    /\ op = "idle"
    /\ \E pvsite \in Registry, country \in Countries,
       fault \in Faults({"lookup", "create"}, {1}), pick \in Picks(sites) :
        LET override == NoneVal     \* the parameter's default, line 32
            r == get_or_create_pvsite(sites, pvsite, country, override,
                     Fails(fault, "lookup", 1), Fails(fault, "create", 1), pick)
        IN  /\ Fired(fault, r.calls)
            /\ Cardinality(r.store) <= MaxSites
            /\ sites' = r.store
            /\ op' = "get_or_create_pvsite"
            /\ args' = [pvsite |-> pvsite, country |-> country,
                        capacity_override_kw |-> override,
                        fault |-> fault, pick |-> pick]
            /\ calls' = r.calls
            /\ raised' = r.err
            /\ returned' = r.site
            /\ UNCHANGED fs

SaveGenerationToSiteDb ==
    /\ op = "idle"
    /\ \E generation_data \in GenTables, country \in Countries,
       fault \in Faults({"lookup", "create", "insert", "commit"}, 1..MaxRows),
       pick \in Picks(sites) :
        LET r == save_generation_to_site_db(sites, generation_data, country,
                                            fault, pick)
        IN  /\ country = "de" \/ "tso_zone" \notin generation_data.columns
            /\ Fired(fault, r.calls)
            /\ Cardinality(r.store) <= MaxSites
            /\ sites' = r.store
            /\ op' = "save_generation_to_site_db"
            /\ args' = [generation_data |-> generation_data, country |-> country,
                        fault |-> fault, pick |-> pick]
            /\ calls' = r.calls
            /\ raised' = r.raised
            /\ returned' = <<>>
            /\ UNCHANGED fs

SaveForecastsToSiteDb ==
    /\ op = "idle"
    /\ \E forecast_data \in ForecastTables, country \in Countries, now \in 0..MaxNow,
       fault \in Faults({"lookup", "create", "insert"}, {1}),
       pick \in Picks(sites) :
        LET r == save_forecasts_to_site_db(sites, forecast_data, "model", "v1",
                                           country, now, fault, pick)
        IN  /\ Fired(fault, r.calls)
            /\ Cardinality(r.store) <= MaxSites
            /\ sites' = r.store
            /\ op' = "save_forecasts_to_site_db"
            /\ args' = [forecast_data |-> forecast_data, country |-> country,
                        now |-> now, fault |-> fault, pick |-> pick]
            /\ calls' = r.calls
            /\ raised' = r.raised
            /\ returned' = <<>>
            /\ UNCHANGED fs

SaveForecastsToDb ==
    /\ op = "idle"
    /\ \E forecasts \in ForecastLists, fault \in Faults({"save"}, {1}) :
        LET r == save_forecasts_to_db(forecasts, fault)
        IN  /\ Fired(fault, r.calls)
            /\ op' = "save_forecasts_to_db"
            /\ args' = [forecasts |-> forecasts, fault |-> fault]
            /\ calls' = r.calls
            /\ raised' = r.raised
            /\ returned' = <<>>
            /\ UNCHANGED <<sites, fs>>

SaveForecastsToCsv ==
    /\ op = "idle"
    /\ \E forecasts \in CsvTables, csv_dir \in CsvDirs,
       fault \in Faults({"makedirs"}, {1}) \cup Faults({"to_csv"}, {1, 2}) :
        LET r == save_forecasts_to_csv(fs, forecasts, csv_dir, fault)
        IN  /\ Fired(fault, r.calls)
            /\ fs' = r.fs
            /\ op' = "save_forecasts_to_csv"
            /\ args' = [forecasts |-> forecasts, csv_dir |-> csv_dir,
                        fault |-> fault]
            /\ calls' = r.calls
            /\ raised' = r.raised
            /\ returned' = <<>>
            /\ UNCHANGED sites

\* The caller has the outcome; the next call starts with an empty call log.
Return ==
    /\ op # "idle"
    /\ op' = "idle"
    /\ args' = <<>>
    /\ calls' = <<>>
    /\ raised' = ""
    /\ returned' = <<>>
    /\ UNCHANGED <<sites, fs>>

Next ==
    \/ Return
    \/ GetOrCreatePvsite
    \/ SaveGenerationToSiteDb
    \/ SaveForecastsToSiteDb
    \/ SaveForecastsToDb

\* The database operations.
Spec == Init /\ [][Next]_vars

NextCsv ==
    \/ Return
    \/ SaveForecastsToCsv

\* The CSV export, which touches the filesystem alone.
SpecCsv == Init /\ [][NextCsv]_vars

----------------------------------------------------------------------------
(* Reading the call log *)

GenOp == "save_generation_to_site_db"
FcOp == "save_forecasts_to_site_db"
DbOp == "save_forecasts_to_db"
CsvOp == "save_forecasts_to_csv"
SiteOp == "get_or_create_pvsite"

LookupFn == "get_site_by_client_site_name"
Idx(fn) == {k \in 1..Len(calls) : calls[k].fn = fn}

\* The site whose bucket the call at position k belongs to: the client
\* site name of the last lookup before k.
BucketOf(k) ==
    LET before == {m \in Idx(LookupFn) : m < k}
    IN  calls[CHOOSE m \in before : \A m2 \in before : m2 <= m].client_site_name

\* The places <<call, row>> at which the input row labelled `index` was
\* handed to the generation store.
Handed(index) ==
    {p \in UNION {{<<k, j>> : j \in 1..Len(calls[k].df)} :
                     k \in Idx("insert_generation_values")} :
        calls[p[1]].df[p[2]]["index"] = index}

ColumnMax(table, col) ==
    CHOOSE m \in {table.rows[i][col] : i \in 1..Len(table.rows)} :
        \A i \in 1..Len(table.rows) : table.rows[i][col] <= m

TsoPos(name) == CHOOSE i \in 1..Len(DE_TSO_SITES) : DE_TSO_SITES[i][1] = name

----------------------------------------------------------------------------
(* C1 *)

EmptyInput ==
    \/ op = GenOp /\ args.generation_data.rows = <<>>
    \/ op = FcOp /\ args.forecast_data.rows = <<>>
    \/ op = DbOp /\ args.forecasts = <<>>
    \/ op = CsvOp /\ args.forecasts.rows = <<>>

\* C1: on an empty input each of the four persist/export operations returns
\* normally and makes no call to an external collaborator.
C1_EmptyInputNoCalls == EmptyInput => raised = "" /\ calls = <<>>

----------------------------------------------------------------------------
(* C2 *)

BadCountry ==
    \/ op = GenOp /\ args.country \notin {"nl", "de"}
    \/ op = FcOp /\ args.country # "nl"

\* C2 as stated: an unsupported country ends in the input error, whatever
\* the input table, with no database interaction before it.
C2_BadCountryAnyTable == BadCountry => raised = "Exception" /\ calls = <<>>

\* C2 amended: save_generation_to_site_db with a non-empty table and a
\* country outside {"nl","de"}, and save_forecasts_to_site_db with a country
\* other than "nl" whatever the table, raise the input error before any
\* database interaction; save_generation_to_site_db with an empty table
\* returns normally whatever the country, also without database interaction.
C2_BadCountryRaisesBeforeDb ==
    BadCountry =>
        /\ calls = <<>>
        /\ raised = IF op = GenOp /\ args.generation_data.rows = <<>>
                    THEN "" ELSE "Exception"

C2_Witness ==
    /\ op = GenOp
    /\ args.country = "fr"
    /\ args.generation_data.rows # <<>>
    /\ raised = "Exception"
    /\ sites # {}

----------------------------------------------------------------------------
(* C3 *)

\* C3: with country "de" and no failing external call, every row of a known
\* TSO zone is handed to the generation store exactly once, in the batch of
\* the site of that name and stamped with that site's identifier; a row of
\* any other zone is handed to no batch; a TSO without rows sees no lookup,
\* create, insert or commit.
C3_DePartition ==
    (/\ op = GenOp
     /\ args.country = "de"
     /\ "tso_zone" \in args.generation_data.columns
     /\ args.fault = NoFault) =>
        LET rows == args.generation_data.rows
            present == {z \in TsoNames : \E i \in 1..Len(rows) : rows[i]["tso_zone"] = z}
        IN  /\ raised = ""
            /\ \A i \in 1..Len(rows) :
                 LET h == Handed(rows[i]["index"])
                 IN  IF rows[i]["tso_zone"] \in TsoNames
                     THEN /\ Cardinality(h) = 1
                          /\ \A p \in h :
                               LET out == calls[p[1]].df[p[2]]
                               IN  /\ BucketOf(p[1]) = rows[i]["tso_zone"]
                                   /\ \E s \in sites :
                                        /\ s.location_uuid = out["site_uuid"]
                                        /\ s.client_site_name = rows[i]["tso_zone"]
                                   /\ out["power_kw"] = rows[i]["solar_generation_kw"]
                                   /\ out["start_utc"] = rows[i]["target_datetime_utc"]
                     ELSE h = {}
            /\ {calls[k].client_site_name : k \in Idx(LookupFn)} = present
            /\ {calls[k].site.client_site_name : k \in Idx("create_site")} \subseteq present
            /\ Cardinality(Idx(LookupFn)) = Cardinality(present)
            /\ Cardinality(Idx("insert_generation_values")) = Cardinality(present)
            /\ Cardinality(Idx("commit")) = Cardinality(present)

C3_Witness ==
    /\ op = GenOp
    /\ args.country = "de"
    /\ "tso_zone" \in args.generation_data.columns
    /\ args.fault = NoFault
    /\ \E i, j \in 1..Len(args.generation_data.rows) :
         /\ args.generation_data.rows[i]["tso_zone"] = "other"
         /\ args.generation_data.rows[j]["tso_zone"] = "TenneT"
    /\ Cardinality(Idx("insert_generation_values")) = 1

----------------------------------------------------------------------------
(* C4 *)

\* The capacity rule of the claim, with ColumnMax as the override.
CapacityAsClaimed(c, override) ==
    IF "capacity_kw" \in args.generation_data.columns
    THEN c.site.capacity_kw * KwParts = override
    ELSE IF args.country = "de"
    THEN c.site.capacity_kw = DE_TSO_CAPACITY[c.site.client_site_name]
    ELSE c.site.capacity_kw = DefaultCapacity

\* C4 as stated: the capacity of every site created by
\* save_generation_to_site_db is the maximum of the capacity_kw column.
C4_CapacityIsColumnMax ==
    op = GenOp =>
        \A k \in Idx("create_site") :
            CapacityAsClaimed(calls[k],
                ColumnMax(args.generation_data, "capacity_kw"))

\* C4 amended: every site created during one call of
\* save_generation_to_site_db gets the capacity int(m), m the maximum of
\* capacity_kw over the entire input table, truncated to an integer, when
\* the table has that column; otherwise the per-TSO capacity for "de" and
\* 20,000,000 kW for "nl".  A site created by save_forecasts_to_site_db
\* always gets 20,000,000 kW.
C4_CapacityRule ==
    /\ op = GenOp =>
         \A k \in Idx("create_site") :
            LET m == ColumnMax(args.generation_data, "capacity_kw")
            IN  CapacityAsClaimed(calls[k], m - (m % KwParts))
    /\ op = FcOp =>
         \A k \in Idx("create_site") :
            calls[k].site.capacity_kw = DefaultCapacity

\* Two sites created in one call, the rows of one below the table's maximum.
C4_Witness ==
    /\ op = GenOp
    /\ "capacity_kw" \in args.generation_data.columns
    /\ Cardinality({k \in Idx("create_site") : calls[k].ok}) = 2
    /\ \E i, j \in 1..Len(args.generation_data.rows) :
         args.generation_data.rows[i]["capacity_kw"]
            < args.generation_data.rows[j]["capacity_kw"]

----------------------------------------------------------------------------
(* C5 *)

\* C5: site creation is idempotent; the store never holds two sites with
\* the same client site name.
C5_OneSitePerName ==
    \A s, t \in sites : s.client_site_name = t.client_site_name => s = t

----------------------------------------------------------------------------
(* C6 *)

\* C6: save_generation_to_site_db commits once per non-empty bucket,
\* directly after the bucket's insert; the buckets come in the order of
\* DE_TSO_SITES; an external call that fails ends the call at once with
\* that error, so nothing follows it.
C6_CommitPerBucketFailFast ==
    op = GenOp =>
        /\ \A k \in Idx("commit") : k > 1 /\ calls[k - 1].fn = "insert_generation_values"
        /\ \A k \in Idx("insert_generation_values") :
             calls[k].ok => k < Len(calls) /\ calls[k + 1].fn = "commit"
        /\ args.country = "de" =>
             \A k, m \in Idx(LookupFn) :
                k < m => TsoPos(calls[k].client_site_name)
                            < TsoPos(calls[m].client_site_name)
        /\ \A k \in 1..Len(calls) :
             Failed(calls[k]) => k = Len(calls) /\ raised = calls[k].fn

----------------------------------------------------------------------------
(* C7 *)

SiteOps == {SiteOp, GenOp, FcOp}

\* The capacity table has no entry: country "de", no override, and a site
\* that is none of the four TSO sites.
NoCapacityEntry(k) ==
    /\ op = SiteOp
    /\ args.country = "de"
    /\ args.capacity_override_kw = NoneVal
    /\ calls[k].client_site_name \notin TsoNames

\* The lookup at k raised and the next call is the one create for its site,
\* whose result, when it succeeds, is the site the operation goes on with.
AnsweredByCreate(k) ==
    /\ k < Len(calls)
    /\ calls[k + 1].fn = "create_site"
    /\ calls[k + 1].site.client_site_name = calls[k].client_site_name
    /\ k + 2 <= Len(calls) => calls[k + 2].fn # "create_site"
    /\ IF calls[k + 1].ok
       THEN /\ calls[k + 1].site \in sites
            /\ op = SiteOp => returned = <<calls[k + 1].site>>
            /\ op = GenOp =>
                 /\ calls[k + 2].fn = "insert_generation_values"
                 /\ \A j \in 1..Len(calls[k + 2].df) :
                      calls[k + 2].df[j]["site_uuid"]
                         = calls[k + 1].site.location_uuid
            /\ op = FcOp =>
                 calls[k + 2].forecast_meta.location_uuid
                    = calls[k + 1].site.location_uuid
       ELSE k + 1 = Len(calls) /\ raised = "create_site"

\* C7 as stated: every lookup that raises, "not found" or not, is swallowed
\* and answered by exactly one site create, and the created site returned.
C7_EveryLookupFailureCreates ==
    op \in SiteOps =>
        \A k \in Idx(LookupFn) :
            calls[k].outcome # "site" =>
                raised # LookupFn /\ AnsweredByCreate(k)

\* C7 amended: a lookup that raises, "not found" or not, never reaches the
\* caller and is answered by exactly one site create, whose site is returned
\* when the create succeeds and whose own error propagates when it fails;
\* except that with country "de", no capacity override and a site that is
\* none of the four TSO sites, the capacity table lookup raises KeyError
\* and no create is made.
C7_LookupFailureSwallowed ==
    op \in SiteOps =>
        \A k \in Idx(LookupFn) :
            calls[k].outcome # "site" =>
                /\ raised # LookupFn
                /\ IF NoCapacityEntry(k)
                   THEN k = Len(calls) /\ raised = "KeyError"
                   ELSE AnsweredByCreate(k)

\* A lookup fails for another reason while a site of that name is stored.
C7_Witness ==
    /\ op \in SiteOps
    /\ \E k \in Idx(LookupFn) :
         /\ calls[k].outcome = "error"
         /\ k < Len(calls)
         /\ calls[k + 1].fn = "create_site"
         /\ calls[k + 1].ok
         /\ \E s \in sites :
              /\ s.client_site_name = calls[k].client_site_name
              /\ s.location_uuid < calls[k + 1].site.location_uuid

----------------------------------------------------------------------------
(* C8 *)

\* C8: one issuance timestamp per call, the clock floored to 15 minutes,
\* used in the run metadata and for every row; end_utc = start_utc + 15,
\* horizon_minutes = start_utc - timestamp (negative when the start
\* precedes it); the rows carry exactly four fields.
C8_ForecastTimes ==
    op = FcOp =>
        \A k \in Idx("insert_forecast_values") :
            LET ts == calls[k].forecast_meta.timestamp_utc
                df == calls[k].forecast_values_df
                inp == args.forecast_data.rows
            IN  /\ ts % 15 = 0
                /\ ts <= args.now
                /\ args.now - ts <= 15
                /\ Len(df) = Len(inp)
                /\ \A j \in 1..Len(df) :
                     /\ DOMAIN df[j] = {"forecast_power_kw", "start_utc",
                                        "end_utc", "horizon_minutes"}
                     /\ df[j].forecast_power_kw = inp[j]["solar_generation_kw"]
                     /\ df[j].start_utc = inp[j]["target_datetime_utc"]
                     /\ df[j].end_utc = df[j].start_utc + 15
                     /\ df[j].horizon_minutes = df[j].start_utc - ts
                     /\ df[j].start_utc < ts => df[j].horizon_minutes < 0

C8_Witness ==
    /\ op = FcOp
    /\ \E k \in Idx("insert_forecast_values") :
         /\ calls[k].forecast_meta.timestamp_utc = 15
         /\ args.now > 15
         /\ \E i, j \in 1..Len(calls[k].forecast_values_df) :
              /\ calls[k].forecast_values_df[i].horizon_minutes < 0
              /\ calls[k].forecast_values_df[j].horizon_minutes > 0

----------------------------------------------------------------------------
(* C9 *)

\* C9: with a non-empty table and no directory, save_forecasts_to_csv raises
\* the input error and leaves the filesystem as it was; with a directory it
\* first ensures the directory and then writes forecast_data.csv once.
C9_CsvDirectory ==
    [][(op' = CsvOp /\ args'.forecasts.rows # <<>>) =>
         IF args'.csv_dir \in {NoneDir, ""}
         THEN raised' = "ValueError" /\ calls' = <<>> /\ fs' = fs
         ELSE /\ Len(calls') \in {1, 2}
              /\ calls'[1].fn = "makedirs"
              /\ calls'[1].dir = args'.csv_dir
              /\ Len(calls') = 2 =>
                   /\ calls'[1].ok
                   /\ args'.csv_dir \in fs'.dirs
                   /\ calls'[2].fn = "to_csv"
                   /\ calls'[2].path = <<args'.csv_dir, "forecast_data.csv">>
              /\ raised' = "" =>
                   /\ Len(calls') = 2
                   /\ calls'[2].path \in DOMAIN fs'.files
                   /\ fs'.files[calls'[2].path] = CsvContent(calls'[2].table)
              /\ \A q \in DOMAIN fs.files :
                   q # <<args'.csv_dir, "forecast_data.csv">> =>
                      q \in DOMAIN fs'.files /\ fs'.files[q] = fs.files[q]
    ]_vars

\* The input error with a file already on disk.
C9_Witness ==
    /\ op = CsvOp
    /\ args.forecasts.rows # <<>>
    /\ args.csv_dir = ""
    /\ raised = "ValueError"
    /\ DOMAIN fs.files # {}

----------------------------------------------------------------------------
(* C10 *)

\* C10: no operation changes a stored site: every site record stays in the
\* directory as it is, whatever capacity override a call carries.
C10_SitesNeverChange ==
    [][\A s \in sites :
          /\ s \in sites'
          /\ \A t \in sites' : t.location_uuid = s.location_uuid => t = s]_vars

\* A stored site is resolved by a call whose override differs from its
\* capacity.
C10_Witness ==
    /\ op = GenOp
    /\ "capacity_kw" \in args.generation_data.columns
    /\ raised = ""
    /\ \E k \in Idx(LookupFn) :
         /\ calls[k].outcome = "site"
         /\ \E j \in 1..Len(calls[k + 1].df) : \E s \in sites :
              /\ s.location_uuid = calls[k + 1].df[j]["site_uuid"]
              /\ s.capacity_kw
                    # ColumnMax(args.generation_data, "capacity_kw") \div KwParts

====
